---- MODULE Spec2Model ----
(***************************************************************************)
(* memcache: an in-process key-value cache with per-entry TTL.  Callers    *)
(* submit Get / Put / Remove commands over a bounded FIFO channel to one   *)
(* engine thread (`run`), which owns the table, replies to Gets on a       *)
(* one-slot reply channel, and sweeps expired entries (`cleanup`) when the *)
(* processing time has passed the watermark `min_expire`.                  *)
(*                                                                         *)
(* Time is a global monotonic clock in milliseconds (Instant::now()).      *)
(***************************************************************************)
EXTENDS Integers, Sequences, FiniteSets, TLC

\* ------------------------------------------------------------------ bounds
MaxTime == 2
MaxTtl == 2
MaxInits == 2
MaxCap == 2

\* ------------------------------------------------------------ value domains
Callers == {"c1", "c2"}
Keys == {"foo", "bar"}
Types == {"i32", "String"}

\* A Cacheable: Arc<dyn Any>, a payload together with its runtime type.
NoData == [type |-> "none", v |-> 0]
Values == {[type |-> "i32", v |-> 69], [type |-> "String", v |-> 1]}
TTLs == {0, 1, MaxTtl}

\* CacheCommand, as the caller builds it.  `typ` is the caller's type
\* parameter T: it stays with the caller and is not part of the message.
NoOp == [kind |-> "None", key |-> "", refresh |-> FALSE, data |-> NoData, ttl |-> 0, typ |-> "none"]
GetOp(k, t, r) == [kind |-> "Get", key |-> k, refresh |-> r, data |-> NoData, ttl |-> 0, typ |-> t]
PutOp(k, v, ttl) == [kind |-> "Put", key |-> k, refresh |-> FALSE, data |-> v, ttl |-> ttl, typ |-> "none"]
RemoveOp(k) == [kind |-> "Remove", key |-> k, refresh |-> FALSE, data |-> NoData, ttl |-> 0, typ |-> "none"]

GetOps(ks, ts) == {GetOp(k, t, r) : k \in ks, t \in ts, r \in BOOLEAN}
PutOps(ks, vs, ts) == {PutOp(k, v, t) : k \in ks, v \in vs, t \in ts}
RemoveOps(ks) == {RemoveOp(k) : k \in ks}

\* The message on the channel: the command and, for a Get, the reply sender
\* (named by the caller that holds the receiver).
Cmd(o, c) == [kind |-> o.kind, key |-> o.key, refresh |-> o.refresh, data |-> o.data, ttl |-> o.ttl, from |-> c]
NoCmd == Cmd(NoOp, "")

\* Result<...> values, on the reply channel and as returned to the caller.
NoResult == [tag |-> "None", err |-> "", data |-> NoData]
Ok(d) == [tag |-> "Ok", err |-> "", data |-> d]
Err(e) == [tag |-> "Err", err |-> e, data |-> NoData]

\* The tokio reply channel of one Get: its one-slot buffer, and whether the
\* receiver (caller side) and the sender (inside the command) still exist.
NoCh == [buf |-> <<>>, rx |-> FALSE, tx |-> FALSE]
OpenCh == [buf |-> <<>>, rx |-> TRUE, tx |-> TRUE]

\* Option<Instant>
None == [some |-> FALSE, v |-> 0]
Some(t) == [some |-> TRUE, v |-> t]

EmptyCache == [k \in {} |-> 0]

\* The workload a behaviour runs, named by `env`: which callers exist, the
\* commands they may issue, the channel capacities init may be given, and how
\* far time runs.  "seq" is one caller with Get, get_refresh, Put (both value
\* types) and Remove on "foo" and, on "bar", Puts of one value with the
\* shortest and the longest ttl; "conc" is two
\* callers on one key, "live" two callers with one Get and one Put; "run" is
\* two callers that each hold one sender of the channel `run` is given and
\* issue one command on "foo" with it.
I32 == [type |-> "i32", v |-> 69]
EnvCallers(e) == IF e = "seq" THEN {"c1"} ELSE Callers
EnvOps(e) ==
    IF e = "seq"
    THEN GetOps({"foo"}, {"i32"}) \cup {GetOp("foo", "String", FALSE)}
         \cup PutOps({"foo"}, {I32}, TTLs) \cup PutOps({"foo"}, Values, {MaxTtl})
         \cup PutOps({"bar"}, {I32}, {0, MaxTtl})
         \cup RemoveOps({"foo"})
    ELSE IF e = "conc"
    THEN GetOps({"foo"}, Types) \cup PutOps({"foo"}, {I32}, {1}) \cup RemoveOps({"foo"})
    ELSE IF e = "run"
    THEN {GetOp("foo", "i32", FALSE), PutOp("foo", I32, 1), RemoveOp("foo")}
    ELSE {GetOp("foo", "i32", FALSE), PutOp("foo", I32, 1)}
EnvCaps(e) == IF e = "seq" THEN {1} ELSE 1..MaxCap
EnvHorizon(e) == IF e = "seq" THEN MaxTime ELSE 1

VARIABLES
    env,         \* the workload (constant over a behaviour)
    clock,       \* Instant::now()
    poisoned,    \* the RwLock around CACHE_SEND is poisoned
    cacheSend,   \* CACHE_SEND: 0 is None, n is the sender of the n-th channel
    nChannels,   \* channels created by init calls so far
    capacity,    \* capacity of the channel stored in CACHE_SEND
    engine,      \* the memcache thread: none, failed, spawned, running, panicked, exited
    nEngines,    \* threads spawned so far
    chan,        \* the command channel's buffer
    cur,         \* the command recv returned, while run handles it (else NoCmd)
    pos,         \* where run is: recv, match, cleanup (none: no thread in the loop)
    cache,       \* run's HashMap<String, CacheItem>
    min_expire,  \* run's watermark
    pc,          \* per caller: off, idle, sending, waiting, cancelled, panicked
    op,          \* per caller: the Get it is awaiting the reply of
    result,      \* per caller: what the last call returned
    replyCh,     \* per caller: the reply channel of its Get
    hist,        \* per key: the last Put/refresh not yet removed or found expired
    pending,     \* per caller: its commands enqueued and not yet taken by recv
    last         \* the command the engine handled last

vars == <<env, clock, poisoned, cacheSend, nChannels, capacity, engine, nEngines,
          chan, cur, pos, cache, min_expire, pc, op, result, replyCh, hist, pending, last>>



\* ------------------------------------------------------- the engine's table
\* CacheItem { data, expires, ttl_ms }
CacheItem(d, e, t) == [data |-> d, expires |-> e, ttl_ms |-> t]

Insert(c, key, item) == [k \in DOMAIN c \cup {key} |-> IF k = key THEN item ELSE c[k]]
RemoveKey(c, key) == [k \in DOMAIN c \ {key} |-> c[k]]

\* Mutant of IsExpired: an entry counts as expired only after its deadline.
IsExpired_Strict(item, now) == item.expires < now

\* `item.expires <= now` (run) and `value.expires <= now` (cleanup)
IsExpired(item, now) == item.expires <= now

\* Which arm of the Get handler is taken.
GetOutcome(c, key, now) ==
    IF key \notin DOMAIN c THEN "NoValue"
    ELSE IF IsExpired(c[key], now) THEN "Expired"
    ELSE "Ok"

\* What the engine sends on the Get's reply channel.
GetReply(c, key, now) ==
    CASE GetOutcome(c, key, now) = "NoValue" -> Err("NoValue")
      [] GetOutcome(c, key, now) = "Expired" -> Err("Expired")
      [] OTHER -> Ok(c[key].data)

\* Mutant of Refresh: the deadline is left where the Put set it.
Refresh_Noop(item, now) == item

\* item.expires = now + Duration::from_millis(item.ttl_ms)
Refresh(item, now) == [item EXCEPT !.expires = now + item.ttl_ms]

\* Mutant of PutItem: the deadline is the ttl itself, not now + ttl.
PutItem_FromZero(value, ttl_ms, now) == CacheItem(value, ttl_ms, ttl_ms)

\* CacheItem { data: value, expires: now + ttl, ttl_ms }
PutItem(value, ttl_ms, now) == CacheItem(value, now + ttl_ms, ttl_ms)

\* Mutant of GetArm: a refreshing Get that finds its entry expired revives it.
GetArm_RefreshExpired(c, cmd, now) ==
    CASE GetOutcome(c, cmd.key, now) = "NoValue" -> c
      [] GetOutcome(c, cmd.key, now) = "Expired" ->
            IF cmd.refresh
            THEN [c EXCEPT ![cmd.key] = Refresh(c[cmd.key], now)]
            ELSE RemoveKey(c, cmd.key)
      [] OTHER -> IF cmd.refresh
                  THEN [c EXCEPT ![cmd.key] = Refresh(c[cmd.key], now)]
                  ELSE c

\* Mutant of GetArm: the Expired path replies and leaves the entry in place.
GetArm_KeepsExpired(c, cmd, now) ==
    IF GetOutcome(c, cmd.key, now) = "Ok" /\ cmd.refresh
    THEN [c EXCEPT ![cmd.key] = Refresh(c[cmd.key], now)]
    ELSE c

\* The table after the Get arm.
GetArm(c, cmd, now) ==
    CASE GetOutcome(c, cmd.key, now) = "NoValue" -> c
      [] GetOutcome(c, cmd.key, now) = "Expired" -> RemoveKey(c, cmd.key)
      [] OTHER -> IF cmd.refresh
                  THEN [c EXCEPT ![cmd.key] = Refresh(c[cmd.key], now)]
                  ELSE c

\* Mutant of PutArm: an existing entry is kept (insert only when absent).
PutArm_KeepExisting(c, cmd, now) ==
    IF cmd.key \in DOMAIN c THEN c ELSE Insert(c, cmd.key, PutItem(cmd.data, cmd.ttl, now))

\* The table after the Put arm.
PutArm(c, cmd, now) == Insert(c, cmd.key, PutItem(cmd.data, cmd.ttl, now))

\* Mutant of RemoveArm: the key is left in the table.
RemoveArm_Noop(c, cmd) == c

\* The table after the Remove arm.
RemoveArm(c, cmd) == RemoveKey(c, cmd.key)

\* The table after `match command { ... }`.
Arm(c, cmd, now) ==
    CASE cmd.kind = "Get" -> GetArm(c, cmd, now)
      [] cmd.kind = "Put" -> PutArm(c, cmd, now)
      [] OTHER -> RemoveArm(c, cmd)

\* Whether control reaches `if now > min_expire` after the match: the
\* NoValue and Expired paths of Get `continue` past it.
ReachesSweepCheck(c, cmd, now) ==
    ~(cmd.kind = "Get" /\ GetOutcome(c, cmd.key, now) \in {"NoValue", "Expired"})

\* Mutant of SweepDue: cleanup runs after every command that reaches the check.
SweepDue_Always(now, watermark) == TRUE

\* `if now > min_expire`
SweepDue(now, watermark) == now > watermark


\* cleanup: the keys it collects in `expired`.
ExpiredKeys(c, now) == {k \in DOMAIN c : IsExpired(c[k], now)}

\* Mutant of MinLive: the latest deadline among the live entries.
MinLive_Max(c, now) ==
    LET live == DOMAIN c \ ExpiredKeys(c, now)
    IN  IF live = {} THEN None
        ELSE Some(c[CHOOSE k \in live : \A j \in live : c[k].expires >= c[j].expires].expires)

\* cleanup: the minimum `expires` among the entries that are not expired.
MinLive(c, now) ==
    LET live == DOMAIN c \ ExpiredKeys(c, now)
    IN  IF live = {} THEN None
        ELSE Some(c[CHOOSE k \in live : \A j \in live : c[k].expires <= c[j].expires].expires)

\* cleanup(&mut cache) at its own reading `now` of the clock.
cleanup(c, now) ==
    [cache |-> [k \in DOMAIN c \ ExpiredKeys(c, now) |-> c[k]],
     ret |-> MinLive(c, now)]

\* `if let Some(v) = cleanup(..) { min_expire = v; }`
NewWatermark(watermark, ret) == IF ret.some THEN ret.v ELSE watermark

\* ret_val: the caller's side of a Get, given the received reply (or nothing,
\* when the reply sender was dropped) and the requested type.
ret_val(got, typ) ==
    IF got = <<>> THEN Err("ThreadDisconnected")
    ELSE IF got[1].tag = "Err" THEN got[1]
    ELSE IF got[1].data.type = typ THEN got[1]
    ELSE Err("InvalidCast")


\* ------------------------------------------------------------ history
\* hist[k]: the most recent Put of k (value, ttl, the deadline it computed)
\* and the time `at` of that Put or of the last refresh after it.  A Remove of
\* k clears it, and so does the first Get of k processed at or after
\* at + ttl.  The sweep never touches it.
NoHist == [has |-> FALSE, data |-> NoData, ttl |-> 0, at |-> 0, putExp |-> 0]

HistLive(h, now) == h.has /\ now < h.at + h.ttl

HistAfter(h, cmd, now) ==
    CASE cmd.kind = "Put" ->
            [has |-> TRUE, data |-> cmd.data, ttl |-> cmd.ttl, at |-> now, putExp |-> now + cmd.ttl]
      [] cmd.kind = "Remove" -> NoHist
      [] OTHER ->
            IF ~h.has THEN h
            ELSE IF ~HistLive(h, now) THEN NoHist
            ELSE IF cmd.refresh THEN [h EXCEPT !.at = now]
            ELSE h

\* What hist said of a key when a command for it arrived at `now`: nothing
\* recorded, a deadline still ahead, or a deadline reached.
HistState(h, now) == IF ~h.has THEN "none" ELSE IF HistLive(h, now) THEN "live" ELSE "due"

\* last: the command the engine handled last (kind, key, refresh), the time
\* `now` it read, what hist said of the key and whether the key was in the
\* table when it arrived, how many times blocking_send was called, which
\* reply went out ("" for none), and whether cleanup ran.
NoLast == [kind |-> "None", key |-> "", refresh |-> FALSE, now |-> 0, had |-> "none",
           present |-> FALSE, sends |-> 0, reply |-> "", swept |-> FALSE]
ReplyKind(sent) == IF sent = <<>> THEN "" ELSE IF sent[1].tag = "Ok" THEN "Ok" ELSE sent[1].err
Last(cmd, now, h, c, sent, swept) ==
    [kind |-> cmd.kind, key |-> cmd.key, refresh |-> cmd.refresh, now |-> now,
     had |-> HistState(h[cmd.key], now), present |-> cmd.key \in DOMAIN c,
     sends |-> Len(sent), reply |-> ReplyKind(sent), swept |-> swept]

\* --------------------------------------------------------------- Init
InitWith(e) ==
    /\ env = e
    /\ clock = 0
    /\ poisoned = FALSE
    /\ cacheSend = 0
    /\ nChannels = 0
    /\ capacity = 0
    /\ engine = "none"
    /\ nEngines = 0
    /\ chan = <<>>
    /\ cur = NoCmd
    /\ pos = "none"
    /\ cache = EmptyCache
    /\ min_expire = 0
    /\ pc = [c \in Callers |-> IF c \in EnvCallers(e) THEN "idle" ELSE "off"]
    /\ op = [c \in Callers |-> NoOp]
    /\ result = [c \in Callers |-> NoResult]
    /\ replyCh = [c \in Callers |-> NoCh]
    /\ hist = [k \in Keys |-> NoHist]
    /\ pending = [c \in Callers |-> <<>>]
    /\ last = NoLast

Init == InitWith("seq")
InitConc == InitWith("conc")
InitLive == InitWith("live")

\* `run(receiver)` called directly (it is private to the crate; a unit test
\* in the crate can call it) on the receiver of a sync_channel of capacity
\* MaxCap: the registry is empty, the thread that runs `run` has been
\* spawned, and every sender of the channel is held by a caller that is
\* about to send one command with it and then drops it.
InitRun ==
    /\ env = "run"
    /\ clock = 0
    /\ poisoned = FALSE
    /\ cacheSend = 0
    /\ nChannels = 1
    /\ capacity = MaxCap
    /\ engine = "spawned"
    /\ nEngines = 1
    /\ chan = <<>>
    /\ cur = NoCmd
    /\ pos = "none"
    /\ cache = EmptyCache
    /\ min_expire = 0
    /\ pc = [c \in Callers |-> "sending"]
    /\ op = [c \in Callers |-> NoOp]
    /\ result = [c \in Callers |-> NoResult]
    /\ replyCh = [c \in Callers |-> NoCh]
    /\ hist = [k \in Keys |-> NoHist]
    /\ pending = [c \in Callers |-> <<>>]
    /\ last = NoLast

\* ------------------------------------------------------------- the clock
Tick ==
    /\ clock < EnvHorizon(env)
    /\ clock' = clock + 1
    /\ UNCHANGED <<env, cur, pos, poisoned, cacheSend, nChannels, capacity, engine, nEngines,
                   chan, cache, min_expire, pc, op, result, replyCh, hist, pending, last>>

\* ------------------------------------------------------------- registry
\* Mutant of Connected: the receiving end outlives the thread.
Connected_Always == TRUE

\* The receiving end of the command channel exists: the thread was spawned
\* and has not panicked.
Connected == engine \in {"spawned", "running"}

\* `if write.is_some() { panic!(..) }`
InitRefused(stored) == stored # 0

\* init(command_buffer_size), the whole call under the write lock.  A
\* poisoned lock or an occupied registry panics; the second poisons the lock
\* (the panic unwinds through the write guard).  Otherwise the sender is
\* stored and the thread is spawned; the spawn may fail with ThreadErr, and
\* then the receiver is dropped with the closure.
CallInit(c, cap, spawned) ==
    /\ pc[c] = "idle"
    /\ nChannels < MaxInits
    /\ nChannels' = nChannels + 1
    /\ IF poisoned
       THEN /\ pc' = [pc EXCEPT ![c] = "panicked"]
            /\ UNCHANGED <<poisoned, cacheSend, capacity, engine, nEngines, result>>
       ELSE IF InitRefused(cacheSend)
       THEN /\ pc' = [pc EXCEPT ![c] = "panicked"]
            /\ poisoned' = TRUE
            /\ UNCHANGED <<cacheSend, capacity, engine, nEngines, result>>
       ELSE /\ cacheSend' = nChannels + 1
            /\ capacity' = cap
            /\ poisoned' = FALSE
            /\ engine' = IF spawned THEN "spawned" ELSE "failed"
            /\ nEngines' = IF spawned THEN nEngines + 1 ELSE nEngines
            /\ result' = [result EXCEPT ![c] = IF spawned THEN Ok(NoData) ELSE Err("ThreadErr")]
            /\ pc' = pc
    /\ UNCHANGED <<env, cur, pos, clock, chan, cache, min_expire, op, replyCh, hist, pending, last>>

\* The thread starts running `run`: an empty table, min_expire = now.
EngineStart ==
    /\ engine = "spawned"
    /\ engine' = "running"
    /\ pos' = "recv"
    /\ cache' = EmptyCache
    /\ min_expire' = clock
    /\ UNCHANGED <<env, cur, clock, poisoned, cacheSend, nChannels, capacity, nEngines,
                   chan, pc, op, result, replyCh, hist, pending, last>>

\* --------------------------------------------------------------- callers
\* get_sender(): panics on a poisoned lock or an empty registry.
SenderAvailable == ~poisoned /\ cacheSend # 0

\* get / get_refresh / put / remove enter: get_sender() returns a clone of
\* the stored sender, or panics.
Call(c) ==
    /\ pc[c] = "idle"
    /\ pc' = [pc EXCEPT ![c] = IF SenderAvailable THEN "sending" ELSE "panicked"]
    /\ result' = [result EXCEPT ![c] = NoResult]
    /\ UNCHANGED <<env, cur, pos, clock, poisoned, cacheSend, nChannels, capacity, engine, nEngines,
                   chan, cache, min_expire, op, replyCh, hist, pending, last>>

\* Mutant of Enqueue: the newest command goes to the front.
Enqueue_Front(q, m) == <<m>> \o q

\* The channel's buffer after a send.
Enqueue(q, m) == Append(q, m)

\* The call builds its command o (for a Get, with a fresh reply channel) and
\* sender.send(command) succeeds; it blocks while the buffer is full.  put
\* and remove return Ok(()) here, get and get_refresh go on to await ret_val.
Send(c, o) ==
    /\ pc[c] = "sending"
    /\ Connected
    /\ Len(chan) < capacity
    /\ chan' = Enqueue(chan, Cmd(o, c))
    /\ pending' = [pending EXCEPT ![c] = Append(@, Cmd(o, c))]
    /\ IF o.kind = "Get"
       THEN /\ pc' = [pc EXCEPT ![c] = "waiting"]
            /\ op' = [op EXCEPT ![c] = o]
            /\ replyCh' = [replyCh EXCEPT ![c] = OpenCh]
            /\ UNCHANGED result
       ELSE /\ pc' = [pc EXCEPT ![c] = "idle"]
            /\ result' = [result EXCEPT ![c] = Ok(NoData)]
            /\ UNCHANGED <<op, replyCh>>
    /\ UNCHANGED <<env, cur, pos, clock, poisoned, cacheSend, nChannels, capacity, engine, nEngines,
                   cache, min_expire, hist, last>>

\* sender.send(command) fails: the receiver is gone.  The call returns
\* ThreadErr.
SendFail(c) ==
    /\ pc[c] = "sending"
    /\ ~Connected
    /\ pc' = [pc EXCEPT ![c] = "idle"]
    /\ result' = [result EXCEPT ![c] = Err("ThreadErr")]
    /\ UNCHANGED <<env, cur, pos, clock, poisoned, cacheSend, nChannels, capacity, engine, nEngines,
                   chan, cache, min_expire, op, replyCh, hist, pending, last>>

\* ret_val(recv).await completes: a reply is in the slot, or every reply
\* sender is gone.
Recv(c) ==
    /\ pc[c] = "waiting"
    /\ replyCh[c].buf # <<>> \/ ~replyCh[c].tx
    /\ result' = [result EXCEPT ![c] = ret_val(replyCh[c].buf, op[c].typ)]
    /\ pc' = [pc EXCEPT ![c] = "idle"]
    /\ op' = [op EXCEPT ![c] = NoOp]
    /\ replyCh' = [replyCh EXCEPT ![c] = NoCh]
    /\ UNCHANGED <<env, cur, pos, clock, poisoned, cacheSend, nChannels, capacity, engine, nEngines,
                   chan, cache, min_expire, hist, pending, last>>

\* The caller's future is dropped while it awaits the reply: the reply
\* receiver is dropped with it.
Cancel(c) ==
    /\ pc[c] = "waiting"
    /\ pc' = [pc EXCEPT ![c] = "cancelled"]
    /\ replyCh' = [replyCh EXCEPT ![c] = [buf |-> <<>>, rx |-> FALSE, tx |-> @.tx]]
    /\ UNCHANGED <<env, cur, pos, clock, poisoned, cacheSend, nChannels, capacity, engine, nEngines,
                   chan, cache, min_expire, op, result, hist, pending, last>>


\* ---------------------------------------------------------------- engine
\* Mutant of Replies: the Expired path removes the entry without replying.
Replies_SilentOnExpired(c, cmd, now) ==
    IF cmd.kind = "Get" /\ GetOutcome(c, cmd.key, now) # "Expired"
    THEN <<GetReply(c, cmd.key, now)>>
    ELSE <<>>

\* What the engine sends, in order, while handling one command: one reply
\* on each path of Get, nothing for Put and Remove.
Replies(c, cmd, now) ==
    IF cmd.kind = "Get" THEN <<GetReply(c, cmd.key, now)>> ELSE <<>>

\* `send.blocking_send(..).unwrap()` panics: the send fails because the
\* reply receiver has been dropped.
ReplyPanics(cmd) == cmd.kind = "Get" /\ ~replyCh[cmd.from].rx

\* The command `receiver.recv()` returns.
Dequeue(q) == Head(q)

\* The senders of the command channel that exist: the one stored in
\* CACHE_SEND, which nothing ever takes out or drops, and the one each call
\* holds (a clone from get_sender()) until it returns or its future is
\* dropped.
SendersAlive ==
    (IF cacheSend # 0 THEN 1 ELSE 0) + Cardinality({c \in Callers : pc[c] \in {"sending", "waiting"}})

\* `receiver.recv()`: a buffered command is returned even when every sender
\* is gone; on an empty buffer it blocks while a sender exists and returns
\* Err (the `break` of run) when none does.
RecvResult(q, senders) ==
    IF q # <<>> THEN "Ok"
    ELSE IF senders = 0 THEN "Err"
    ELSE "Block"

\* `receiver.recv()` returns a command: it leaves the buffer, and its slot
\* is free for a sender, before run reads the clock for it.
Take ==
    /\ engine = "running"
    /\ pos = "recv"
    /\ RecvResult(chan, SendersAlive) = "Ok"
    /\ cur' = Dequeue(chan)
    /\ pos' = "match"
    /\ chan' = Tail(chan)
    /\ pending' = [pending EXCEPT ![Dequeue(chan).from] = Tail(@)]
    /\ UNCHANGED <<env, clock, poisoned, cacheSend, nChannels, capacity, engine, nEngines,
                   cache, min_expire, pc, op, result, replyCh, hist, last>>

\* `receiver.recv()` returns Err: every sender is gone and the buffer is
\* empty.  run prints its notice, breaks out of the loop and returns; its
\* table and watermark are dropped with its frame, the receiver with them.
EngineExit ==
    /\ engine = "running"
    /\ pos = "recv"
    /\ RecvResult(chan, SendersAlive) = "Err"
    /\ engine' = "exited"
    /\ pos' = "none"
    /\ cache' = EmptyCache
    /\ min_expire' = 0
    /\ UNCHANGED <<env, clock, poisoned, cacheSend, nChannels, capacity, nEngines,
                   chan, cur, pc, op, result, replyCh, hist, pending, last>>

\* The match of an iteration that does not panic: read the clock, run the
\* arm for the command taken (sending the reply of a Get), then, where
\* control reaches it, test `now > min_expire` with the same reading: run
\* goes on to cleanup or back to recv.
Handle ==
    /\ engine = "running"
    /\ pos = "match"
    /\ LET cmd == cur
           now == clock
           sweep == ReachesSweepCheck(cache, cmd, now) /\ SweepDue(now, min_expire)
           sent == Replies(cache, cmd, now)
       IN  /\ ~ReplyPanics(cmd)
           /\ cur' = NoCmd
           /\ pos' = IF sweep THEN "cleanup" ELSE "recv"
           /\ replyCh' = IF cmd.kind = "Get"
                         THEN [replyCh EXCEPT ![cmd.from] =
                                  [buf |-> @.buf \o sent, rx |-> @.rx, tx |-> FALSE]]
                         ELSE replyCh
           /\ hist' = [hist EXCEPT ![cmd.key] = HistAfter(@, cmd, now)]
           /\ cache' = Arm(cache, cmd, now)
           /\ last' = Last(cmd, now, hist, cache, sent, FALSE)
    /\ UNCHANGED <<env, clock, poisoned, cacheSend, nChannels, capacity, engine, nEngines,
                   chan, min_expire, pc, op, result, pending>>

\* cleanup(&mut cache), called after the reply has gone out: it reads the
\* clock itself, removes what is expired by then, and run stores a Some
\* result in min_expire.
Sweep ==
    /\ engine = "running"
    /\ pos = "cleanup"
    /\ pos' = "recv"
    /\ cache' = cleanup(cache, clock).cache
    /\ min_expire' = NewWatermark(min_expire, cleanup(cache, clock).ret)
    /\ last' = [last EXCEPT !.swept = TRUE]
    /\ UNCHANGED <<env, clock, poisoned, cacheSend, nChannels, capacity, engine, nEngines,
                   chan, cur, pc, op, result, replyCh, hist, pending>>

\* The iteration panics in `blocking_send(..).unwrap()`: the panic unwinds
\* run, whose locals are dropped: the table with every entry in it, the
\* watermark, and the command receiver, and with the receiver the command in
\* hand, every queued command and the reply sender each carries.
HandlePanic ==
    /\ engine = "running"
    /\ pos = "match"
    /\ ReplyPanics(cur)
    /\ engine' = "panicked"
    /\ cache' = EmptyCache
    /\ min_expire' = 0
    /\ cur' = NoCmd
    /\ pos' = "none"
    /\ chan' = <<>>
    /\ pending' = [c \in Callers |-> <<>>]
    /\ replyCh' = [c \in Callers |->
                      IF \/ cur.from = c
                         \/ \E i \in 1..Len(chan) : chan[i].kind = "Get" /\ chan[i].from = c
                      THEN [replyCh[c] EXCEPT !.tx = FALSE]
                      ELSE replyCh[c]]
    /\ last' = [Last(cur, clock, hist, cache, Replies(cache, cur, clock), FALSE)
                   EXCEPT !.reply = ""]
    /\ UNCHANGED <<env, clock, poisoned, cacheSend, nChannels, capacity, nEngines,
                   pc, op, result, hist>>

\* ------------------------------------------------------------------ Next
\* The steps of the library used through its public functions.  EngineExit
\* is not among them: CACHE_SEND holds a sender from the first init on, so
\* recv never returns Err there.
Next ==
    \/ Tick
    \/ \E c \in Callers, cap \in EnvCaps(env), spawned \in BOOLEAN : CallInit(c, cap, spawned)
    \/ EngineStart
    \/ \E c \in Callers : Call(c)
    \/ \E c \in Callers, o \in EnvOps(env) : Send(c, o)
    \/ \E c \in Callers : SendFail(c)
    \/ \E c \in Callers : Recv(c)
    \/ \E c \in Callers : Cancel(c)
    \/ Take
    \/ Handle
    \/ Sweep
    \/ HandlePanic

\* The steps of a run in which `run` is driven directly: no init and no
\* get_sender (the registry is empty), and the exit of the loop, which the
\* library's own callers never bring about because CACHE_SEND keeps a sender
\* for the life of the process.
NextRun ==
    \/ Tick
    \/ EngineStart
    \/ \E c \in Callers, o \in EnvOps(env) : Send(c, o)
    \/ \E c \in Callers : SendFail(c)
    \/ \E c \in Callers : Recv(c)
    \/ \E c \in Callers : Cancel(c)
    \/ Take
    \/ Handle
    \/ Sweep
    \/ HandlePanic
    \/ EngineExit

\* One caller, the full command set: the engine's contract.
Spec == Init /\ [][Next]_vars

\* Two callers, one key: the transport and the registry.
SpecConc == InitConc /\ [][Next]_vars

\* Scheduling: the engine thread, once spawned, starts and keeps taking
\* commands; a caller whose reply or send error is ready is resumed; a caller
\* blocked on a full channel gets a slot that frees up infinitely often.
Fairness ==
    /\ WF_vars(EngineStart)
    /\ WF_vars(Take)
    /\ WF_vars(Handle \/ HandlePanic)
    /\ WF_vars(Sweep)
    /\ \A c \in Callers :
          /\ WF_vars(Recv(c))
          /\ WF_vars(SendFail(c))
          /\ SF_vars(\E o \in EnvOps(env) : Send(c, o))

SpecLive == InitLive /\ [][Next]_vars /\ Fairness

\* `run` on a channel whose senders all go away: shutdown.
SpecRun == InitRun /\ [][NextRun]_vars


\* ============================================================== claims
\* A step in which the engine took the head of the channel, one in which
\* it finished with the command it had taken, and one in which it did so
\* without panicking.
Taken == cur = NoCmd /\ cur' # NoCmd
Consumed == cur # NoCmd /\ cur' = NoCmd
Handled == Consumed /\ engine' = "running"

\* A step in which cleanup ran, on the table `cache` at the time `clock`.
Swept == pos = "cleanup" /\ pos' = "recv"

\* The reply a handled Get put on its reply channel.
ReplyOf(cmd) == replyCh'[cmd.from].buf

\* C1 (engine side): a handled Get of key k at time `clock` replies NoValue
\* when k is not in the table, Expired when its entry has expires <= clock
\* (and that entry is gone after the step), else Ok with the stored value.
C1_EngineReply ==
    Handled /\ cur.kind = "Get" =>
        LET k == cur.key
        IN  /\ ReplyOf(cur) =
                  << IF k \notin DOMAIN cache THEN Err("NoValue")
                     ELSE IF cache[k].expires <= clock THEN Err("Expired")
                     ELSE Ok(cache[k].data) >>
            /\ (k \in DOMAIN cache /\ cache[k].expires <= clock => k \notin DOMAIN cache')

\* C1 (caller side): the call returns the engine's error unchanged, the
\* value when its type is the requested one, InvalidCast otherwise.
C1_CallerResult ==
    \A c \in Callers :
        pc[c] = "waiting" /\ pc'[c] = "idle" /\ replyCh[c].buf # <<>> =>
            LET m == replyCh[c].buf[1]
            IN  result'[c] = IF m.tag = "Err" THEN m
                             ELSE IF m.data.type # op[c].typ THEN Err("InvalidCast")
                             ELSE Ok(m.data)

\* C1: the result of get / get_refresh is NoValue for an absent key, Expired
\* for an entry with expires_at <= now (removed by that Get, whatever the
\* requested type), InvalidCast for a live entry of another type, and the
\* stored value otherwise.
C1_GetContract == [][C1_EngineReply]_vars /\ [][C1_CallerResult]_vars

\* C1 witness: a Get found its entry expired, the caller got Expired and the
\* entry is gone.
C1_Witness ==
    /\ last.kind = "Get" /\ last.reply = "Expired" /\ last.present
    /\ last.key \notin DOMAIN cache
    /\ \E c \in Callers : result[c] = Err("Expired")

\* C2 as written: a Get the engine replied to, for a key whose recorded
\* deadline has been reached, is answered Expired.
C2_ExpiredOnNextGet ==
    last.kind = "Get" /\ last.reply # "" /\ last.had = "due" => last.reply = "Expired"

\* C2 amended: such a Get is answered Expired when the entry is still in the
\* table and NoValue when a sweep has already removed it, never with the
\* value; after it the entry is absent, and a Get of a key with nothing
\* recorded is answered NoValue.
C2_ExpiredOrSwept ==
    last.kind = "Get" /\ last.reply # "" =>
        /\ last.had = "due" =>
              /\ last.reply = IF last.present THEN "Expired" ELSE "NoValue"
              /\ last.key \notin DOMAIN cache
              /\ ~hist[last.key].has
        /\ last.had = "none" => last.reply = "NoValue"

\* C2 witness: a sweep removed the expired entry before the Get came, which
\* was answered NoValue.
C2_Witness ==
    last.kind = "Get" /\ last.had = "due" /\ ~last.present /\ last.reply = "NoValue"

\* C3 (the refresh): a handled get_refresh at `clock` of a live entry leaves
\* it with expires = clock + ttl_ms, data and ttl_ms unchanged.
C3_RefreshSets ==
    Handled /\ cur.kind = "Get" /\ cur.refresh =>
        LET k == cur.key
        IN  k \in DOMAIN cache /\ cache[k].expires > clock =>
               /\ k \in DOMAIN cache'
               /\ cache'[k] = [data |-> cache[k].data,
                               expires |-> clock + cache[k].ttl_ms,
                               ttl_ms |-> cache[k].ttl_ms]

\* C3 (the later get): a handled Get at t' < t + ttl, t the time of the last
\* Put or refresh of the key and ttl that of the last Put, with no Remove
\* since, is answered with the value.
C3_LiveUntilRefreshedDeadline ==
    Handled /\ cur.kind = "Get" =>
        LET h == hist[cur.key]
        IN  h.has /\ clock < h.at + h.ttl => ReplyOf(cur) = <<Ok(h.data)>>

\* C3: get_refresh at t sets expires_at to t + ttl (ttl as last put), and a
\* later get before t + ttl succeeds, also at or past the put's deadline.
C3_Refresh == [][C3_RefreshSets]_vars /\ [][C3_LiveUntilRefreshedDeadline]_vars

\* C3 witness: a Get answered Ok at or after the deadline the Put computed.
C3_Witness ==
    /\ last.kind = "Get" /\ last.reply = "Ok"
    /\ hist[last.key].has
    /\ last.now >= hist[last.key].putExp
    /\ \E c \in Callers : result[c].tag = "Ok" /\ result[c].data = hist[last.key].data

\* C4 (the put): a handled Put at `clock` leaves the key with exactly the
\* new value, ttl and expires = clock + ttl, whatever was there.
C4_PutOverwrites ==
    Handled /\ cur.kind = "Put" =>
        /\ cur.key \in DOMAIN cache'
        /\ cache'[cur.key] = [data |-> cur.data, expires |-> clock + cur.ttl,
                              ttl_ms |-> cur.ttl]

\* C4 (the get): a handled Get before put_time + ttl of the most recent Put,
\* with no Remove since, is answered with that Put's value.
C4_GetSeesLastPut ==
    Handled /\ cur.kind = "Get" =>
        LET h == hist[cur.key]
        IN  h.has /\ clock < h.putExp => ReplyOf(cur) = <<Ok(h.data)>>

\* C4: put then get before put_time + ttl returns the value of that put; a
\* put overwrites value, ttl and expires_at unconditionally.
C4_PutGet == [][C4_PutOverwrites]_vars /\ [][C4_GetSeesLastPut]_vars

\* C4 witness: a Put on a key that was in the table replaced its value.
C4_Witness ==
    /\ last.kind = "Put" /\ last.present
    /\ last.key \in DOMAIN cache
    /\ cache[last.key].data = [type |-> "String", v |-> 1]
    /\ cache[last.key].expires = last.now + cache[last.key].ttl_ms

\* C5 (get): a handled Get of a key never put, or removed (or found expired)
\* since its last Put, is answered NoValue.
C5_AbsentIsNoValue ==
    Handled /\ cur.kind = "Get" /\ ~hist[cur.key].has =>
        ReplyOf(cur) = <<Err("NoValue")>>

\* C5 (remove): handling a Remove never stops the engine and sends nothing;
\* the key is absent after it; every other entry is unchanged by the arm.
C5_RemoveEffect ==
    Consumed /\ cur.kind = "Remove" =>
        /\ engine' = "running"
        /\ replyCh' = replyCh
        /\ cur.key \notin DOMAIN cache'
        /\ ~hist'[cur.key].has
        /\ DOMAIN cache' = DOMAIN cache \ {cur.key}
        /\ \A j \in DOMAIN cache' : cache'[j] = cache[j]

\* C5 (the rest of the iteration): the sweep that run goes on to after the
\* Remove arm, when one is due, does not stop the engine, sends nothing and
\* does not bring the key back; it evicts entries of other keys whose
\* deadline has passed and leaves every live entry as it was.
C5_RemoveSweep ==
    Swept /\ last.kind = "Remove" =>
        /\ engine' = "running"
        /\ replyCh' = replyCh
        /\ hist' = hist
        /\ last.key \notin DOMAIN cache'
        /\ DOMAIN cache' \subseteq DOMAIN cache
        /\ \A j \in DOMAIN cache :
              IF cache[j].expires > clock
              THEN j \in DOMAIN cache' /\ cache'[j] = cache[j]
              ELSE j \notin DOMAIN cache'

\* C5 as written: a Remove of a key that is not in the table changes no
\* entry, neither in its arm nor in the rest of its iteration; it sends
\* nothing and the engine keeps running; a Get of a key with no Put since
\* its last Remove is answered NoValue.
C5_RemoveOfAbsentChangesNothing ==
    [][/\ C5_AbsentIsNoValue
       /\ C5_RemoveEffect
       /\ Consumed /\ cur.kind = "Remove" /\ cur.key \notin DOMAIN cache =>
             cache' = cache
       /\ Swept /\ last.kind = "Remove" /\ ~last.present =>
             cache' = cache /\ engine' = "running"]_vars

\* C5: after a Remove the key yields NoValue until it is put again; a key
\* never put yields NoValue; a Remove, of a key in the table or not, sends
\* nothing, does not stop the engine and changes no live entry of another
\* key: over its whole iteration the only other entries that go are the
\* ones the following sweep finds expired.
C5_Remove ==
    [][C5_AbsentIsNoValue]_vars /\ [][C5_RemoveEffect]_vars /\ [][C5_RemoveSweep]_vars

\* C5 witness: a Remove of a key that was not in the table was handled and
\* followed by its sweep; another entry is in the table and the engine is
\* running.
C5_Witness ==
    /\ last.kind = "Remove" /\ ~last.present /\ last.swept
    /\ DOMAIN cache # {}
    /\ pos = "recv"
    /\ engine = "running"


\* C6 as written: no command makes the engine thread die; a Get whose reply
\* receiver was dropped is handled like any other.
C6_EngineSurvivesDroppedReply == engine # "panicked"

\* C7: consuming a Get calls blocking_send exactly once, and with the
\* receiver in place that puts exactly one message into the empty slot of
\* that Get's channel and nothing anywhere else; consuming a Put or a Remove
\* sends nothing.
C7_ReplyCount ==
    Consumed =>
        LET cmd == cur
        IN  /\ last'.sends = IF cmd.kind = "Get" THEN 1 ELSE 0
            /\ IF cmd.kind = "Get" /\ replyCh[cmd.from].rx
               THEN /\ replyCh[cmd.from].buf = <<>>
                    /\ Len(replyCh'[cmd.from].buf) = 1
                    /\ \A c \in Callers \ {cmd.from} : replyCh'[c].buf = replyCh[c].buf
               ELSE \A c \in Callers : replyCh'[c].buf = replyCh[c].buf

\* C7: exactly one reply per consumed Get, into an empty slot, and none for
\* Put or Remove, in every step of the engine.
C7_OneReplyPerGet == [][C7_ReplyCount]_vars

\* C7 witness: a get_refresh on a live entry was answered, and its one reply
\* sits in the caller's slot.
C7_Witness ==
    /\ last.kind = "Get" /\ last.refresh /\ last.reply = "Ok" /\ last.sends = 1
    /\ \E c \in Callers : pc[c] = "waiting" /\ Len(replyCh[c].buf) = 1

\* C8: under fair scheduling every call that is sending leaves the send
\* (enqueued, or failed with ThreadErr) and every get awaiting its reply
\* stops waiting (the reply, or ThreadDisconnected).
C8_NoDeadlock ==
    \A c \in Callers :
        /\ (pc[c] = "sending") ~> (pc[c] # "sending")
        /\ (pc[c] = "waiting") ~> (pc[c] # "waiting")

\* C8 witness: the engine died on one caller's dropped Get and another
\* caller's Get, queued behind it, completed with ThreadDisconnected.
C8_Witness ==
    \E c, d \in Callers :
        /\ pc[d] = "cancelled"
        /\ pc[c] = "idle"
        /\ result[c] = Err("ThreadDisconnected")

\* The commands of producer c in the channel, in channel order.
FromCaller(q, c) == SelectSeq(q, LAMBDA m : m.from = c)

\* C9: the channel holds each producer's unconsumed commands exactly once
\* and in submission order, never more than its capacity, and one engine at
\* most consumes them, one command per step, from the head.
C9_FifoState ==
    /\ \A c \in Callers : FromCaller(chan, c) = pending[c]
    /\ Len(chan) <= capacity
    /\ nEngines <= 1

C9_FifoStep ==
    /\ Taken => /\ chan' = Tail(chan)
                /\ cur' = Head(chan)
                /\ Head(chan) = Head(pending[Head(chan).from])
    /\ Handled => /\ chan' = chan
                  /\ last'.kind = cur.kind /\ last'.key = cur.key

\* C9: per-producer submission order, exactly-once consumption from the
\* head, and a single consumer, after every step.
C9_Fifo == [][C9_FifoState' /\ C9_FifoStep]_vars

\* C9 witness: one producer has two different commands in the channel while
\* the engine has already consumed a command.
C9_Witness ==
    /\ last.kind # "None"
    /\ \E c \in Callers :
          /\ Len(pending[c]) = 2
          /\ pending[c][1].kind = "Put"
          /\ pending[c][2].kind = "Remove"

\* C10 (state): only the first channel's sender is ever stored, at most one
\* engine was started and only with a sender stored; with no sender stored
\* nothing is enqueued and no call is past get_sender.
C10_RegistryState ==
    /\ cacheSend \in {0, 1}
    /\ nEngines <= 1
    /\ nEngines = 1 => cacheSend = 1
    /\ cacheSend = 0 =>
          /\ chan = <<>>
          /\ cur = NoCmd
          /\ engine = "none"
          /\ \A c \in Callers : pc[c] \notin {"sending", "waiting"} /\ pending[c] = <<>>

\* C10 (step): a stored sender is never replaced; an init call on an
\* occupied registry panics and changes neither the sender nor the engines;
\* the first init stores the sender and, when it returns Ok, has started one
\* engine; a call entered with no sender stored panics.
C10_RegistryStep ==
    /\ cacheSend # 0 => cacheSend' = cacheSend /\ nEngines' = nEngines
    /\ nChannels' # nChannels =>
          IF cacheSend # 0
          THEN /\ \E c \in Callers : pc[c] = "idle" /\ pc'[c] = "panicked"
               /\ engine' = engine
          ELSE /\ cacheSend' = 1
               /\ \E c \in Callers :
                     /\ result'[c] # result[c]
                     /\ result'[c] = Ok(NoData) <=> nEngines' = 1
    /\ \A c \in Callers :
          cacheSend = 0 /\ nChannels' = nChannels /\ pc[c] = "idle" /\ pc'[c] # "idle" =>
              pc'[c] = "panicked" /\ chan' = chan

\* C10 (as written, init): the first init, the one that stores the sender,
\* starts exactly one engine.
C10_FirstInitStartsEngine ==
    cacheSend = 0 /\ cacheSend' # 0 => nEngines' = 1 /\ engine' = "spawned"

\* C10 (as written, calls): while no init has succeeded (no engine was ever
\* started) a get, get_refresh, put or remove that is entered is fatal and
\* enqueues nothing.
C10_CallBeforeInitIsFatal ==
    \A c \in Callers :
        nEngines = 0 /\ nChannels' = nChannels /\ pc[c] = "idle" /\ pc'[c] # "idle" =>
            pc'[c] = "panicked" /\ chan' = chan

\* C10 as written: the registry holds at most one sender; the first init
\* stores it and starts exactly one engine; a later init fails fatally
\* without replacing the sender or starting an engine; a call made before a
\* successful init is fatal and enqueues nothing.
C10_Registry ==
    [][/\ C10_RegistryState'
       /\ C10_RegistryStep
       /\ C10_FirstInitStartsEngine
       /\ C10_CallBeforeInitIsFatal]_vars

\* C11 (order): recv hands run the head of the channel and leaves the rest
\* queued in order, whether or not a sender is left.
C11_TakesInOrder ==
    Taken => cur' = Head(chan) /\ chan' = Tail(chan) /\ engine' = "running"

\* C11 (no early exit): run leaves its loop by the clean exit only when no
\* sender exists, the channel is empty and no command is in hand: every
\* command that was enqueued has been taken and handled before.
C11_ExitsOnlyDrained ==
    engine = "running" /\ engine' = "exited" =>
        /\ SendersAlive = 0
        /\ chan = <<>>
        /\ cur = NoCmd
        /\ \A c \in Callers : pending[c] = <<>>

\* C11 (shutdown): once every sender has been dropped, the only way run
\* leaves its loop is the clean exit.
C11_AfterLastSenderOnlyCleanExit ==
    engine = "running" /\ SendersAlive = 0 => engine' \in {"running", "exited"}

C12_SweepStep ==
    Swept =>
        LET s == clock
            live == {k \in DOMAIN cache : cache[k].expires > s}
            ret == cleanup(cache, s).ret
        IN  /\ DOMAIN cache' = live
            /\ \A k \in live : cache'[k] = cache[k]
            /\ ret.some <=> live # {}
            /\ live # {} =>
                  /\ \E k \in live : ret.v = cache[k].expires
                  /\ \A k \in live : ret.v <= cache[k].expires
                  /\ min_expire' = ret.v

C12_Sweep == [][C12_SweepStep]_vars

\* C12 witness: the last command was followed by a sweep that removed one
\* key and kept the other, whose deadline is now the watermark.
C12_Witness ==
    /\ last.swept
    /\ \E k \in Keys :
          /\ hist[k].has
          /\ k \notin DOMAIN cache
          /\ \E j \in DOMAIN cache : min_expire = cache[j].expires

\* C13: after every processed command (the iteration is over, run is back
\* at recv) the watermark is a lower bound on the deadlines in the table:
\* min_expire <= expires for every entry.
C13_WatermarkLowerBound ==
    engine = "running" /\ pos = "recv" /\ last.kind # "None" =>
        \A k \in DOMAIN cache : min_expire <= cache[k].expires

\* C14: once run has initialised it, min_expire changes only in a step in
\* which cleanup ran, and every value cleanup returns for it is strictly
\* greater than the one it replaces: the watermark never moves backwards
\* and no match arm writes it.  (A step that ends run assigns nothing: the
\* variable goes out of scope with run's frame.)
C14_WatermarkStep ==
    engine = "running" /\ engine' = "running" =>
        /\ min_expire' # min_expire => Swept
        /\ min_expire' >= min_expire
        /\ Swept /\ cleanup(cache, clock).ret.some => min_expire' > min_expire

C14_WatermarkMonotonic == [][C14_WatermarkStep]_vars

\* C14 witness: a sweep after a refreshing Get moved the watermark forward
\* to the refreshed deadline, past the deadline the Put had set.
C14_Witness ==
    /\ engine = "running"
    /\ last.kind = "Get" /\ last.refresh /\ last.swept
    /\ last.key \in DOMAIN cache
    /\ min_expire = cache[last.key].expires
    /\ min_expire > hist[last.key].putExp

\* C15: the sweep condition is evaluated after every handled command,
\* whatever its kind and outcome: when the command's time is past the
\* watermark, run goes on to cleanup before it takes the next command.
C15_SweepCheckedStep ==
    Handled /\ clock > min_expire => pos' = "cleanup"

C15_SweepCheckedAfterEveryCommand == [][C15_SweepCheckedStep]_vars

\* C16: when the previous command's sweep found no live entry (it swept
\* and left the table empty), the watermark is parked in the far future, so
\* the next command, if it leaves the table empty too, is not followed by
\* another sweep.
C16_NoResweepStep ==
    /\ Handled
    /\ last.swept
    /\ cache = EmptyCache
    /\ cache' = EmptyCache
    => pos' # "cleanup"

C16_NoResweepOnEmptyTable == [][C16_NoResweepStep]_vars

\* C17: every entry in the table has expires = t + ttl, where ttl is the
\* ttl of the most recent Put of its key (also kept in ttl_ms) and t the
\* processing time of that Put or of the latest Get with refresh that found
\* the entry live after it.
C17_DeadlineIsTimePlusTtl ==
    \A k \in DOMAIN cache :
        /\ hist[k].has
        /\ cache[k].ttl_ms = hist[k].ttl
        /\ cache[k].expires = hist[k].at + hist[k].ttl

\* C17 witness: an entry put at a time after 0 with a positive ttl, later
\* refreshed: its deadline is the refresh time plus the ttl, past the
\* deadline the Put had set.
C17_Witness ==
    \E k \in DOMAIN cache :
        /\ cache[k].ttl_ms > 0
        /\ hist[k].putExp > hist[k].ttl
        /\ cache[k].expires > hist[k].putExp

\* C18 as written: in any step, an entry of the table is changed only when
\* the engine handles a Put of its key or a Get with refresh of its key, and
\* leaves the table only when the engine handles a Remove of its key or a
\* Get of its key at or after its deadline, or runs a sweep at or after its
\* deadline.  So a Get without refresh leaves its entry as it is, and
\* neither a command on another key nor a sweep changes or removes a live
\* entry.
C18_FrameStep ==
    \A k \in DOMAIN cache :
        /\ k \in DOMAIN cache' /\ cache'[k] # cache[k] =>
              /\ Handled
              /\ cur.key = k
              /\ cur.kind = "Put" \/ (cur.kind = "Get" /\ cur.refresh)
        /\ k \notin DOMAIN cache' =>
              \/ Handled /\ cur.kind = "Remove" /\ cur.key = k
              \/ Handled /\ cur.kind = "Get" /\ cur.key = k /\ cache[k].expires <= clock
              \/ Swept /\ cache[k].expires <= clock
        /\ (Handled /\ cur.key # k) \/ (Swept /\ cache[k].expires > clock) =>
              k \in DOMAIN cache' /\ cache'[k] = cache[k]

C18_Frame == [][C18_FrameStep]_vars

\* C19 (engine side): a handled Get with refresh whose entry is live
\* replies Ok with the stored value and moves the deadline to clock + ttl_ms
\* whatever type the caller asked for; one that replies NoValue or Expired
\* extends nothing: every entry left in the table is as it was.
C19_EngineRefresh ==
    Handled /\ cur.kind = "Get" /\ cur.refresh =>
        LET k == cur.key
        IN  IF k \in DOMAIN cache /\ cache[k].expires > clock
            THEN /\ ReplyOf(cur) = <<Ok(cache[k].data)>>
                 /\ k \in DOMAIN cache'
                 /\ cache'[k] = [cache[k] EXCEPT !.expires = clock + cache[k].ttl_ms]
            ELSE /\ ReplyOf(cur)[1].tag = "Err"
                 /\ \A j \in DOMAIN cache' : j \in DOMAIN cache /\ cache'[j] = cache[j]

\* C19 (caller side): a call that receives an Ok reply whose value is not
\* of the requested type returns InvalidCast.
C19_CallerCast ==
    \A c \in Callers :
        /\ pc[c] = "waiting" /\ pc'[c] = "idle"
        /\ replyCh[c].buf # <<>>
        /\ replyCh[c].buf[1].tag = "Ok"
        /\ replyCh[c].buf[1].data.type # op[c].typ
        => result'[c] = Err("InvalidCast")

C19_RefreshBeforeCast == [][C19_EngineRefresh]_vars /\ [][C19_CallerCast]_vars

\* C19 witness: the last command was a get_refresh that the engine answered
\* Ok and whose caller got InvalidCast, and the entry's deadline is the time
\* of that Get plus its ttl, past the deadline the Put had set.
C19_Witness ==
    /\ last.kind = "Get" /\ last.refresh /\ last.reply = "Ok"
    /\ result["c1"] = Err("InvalidCast")
    /\ pc["c1"] = "idle"
    /\ last.key \in DOMAIN cache
    /\ cache[last.key].expires = last.now + cache[last.key].ttl_ms
    /\ cache[last.key].expires > hist[last.key].putExp

\* C20: while the most recent Put of a key had ttl = 0 (no later Put of
\* it), every handled Get of the key, refreshing or not, replies Expired or
\* NoValue, never the value; and when cleanup runs in the iteration of that
\* Put, the entry is removed by it.
C20_ZeroTtlStep ==
    /\ Handled /\ cur.kind = "Get" /\ hist[cur.key].has /\ hist[cur.key].ttl = 0
       => ReplyOf(cur) \in {<<Err("Expired")>>, <<Err("NoValue")>>}
    /\ Swept /\ last.kind = "Put" /\ hist[last.key].has /\ hist[last.key].ttl = 0
       => last.key \notin DOMAIN cache'

C20_ZeroTtlNeverRetrievable == [][C20_ZeroTtlStep]_vars

\* C20 witness: a Put with ttl = 0 is the last command, the sweep ran after
\* it and the entry it had inserted is already gone.
C20_Witness ==
    /\ last.kind = "Put" /\ last.swept
    /\ hist[last.key].has /\ hist[last.key].ttl = 0
    /\ last.key \notin DOMAIN cache

====
